---- MODULE Spec2Model ----
(***************************************************************************)
(* The operand stack of the Miden processor (processor/src/v1/stack):      *)
(* a 16-column execution trace holding the top of the stack at every       *)
(* clock cycle, and an overflow list holding what lies below the top 16.   *)
(*                                                                         *)
(* Rows of the trace are numbered from 0 as in the source; a column is a   *)
(* TLA+ sequence, so row r of column i is trace[i][r + 1].                 *)
(***************************************************************************)
EXTENDS Integers, Sequences, FiniteSets, TLC

VARIABLES
    step,      \* Stack.step: the current clock cycle
    depth,     \* Stack.depth
    trace,     \* Stack.trace: column |-> its rows
    overflow,  \* Stack.overflow: the newest element last
    last,      \* the interpreter's record of its last call and what it returned
    pend,      \* the calls left in the interpreter's current cycle script
    free,      \* calls the interpreter may still issue outside a script
    abs,       \* the abstract stack the push/pop interpreter means to have
    pair       \* the matched pairs the pair interpreter has issued

stack == <<step, depth, trace, overflow>>
vars == <<step, depth, trace, overflow, last, pend, free, abs, pair>>

\* ---------------------------------------------------------------- constants

STACK_TOP_SIZE == 16
MAX_TOP_IDX == STACK_TOP_SIZE - 1
ZERO == 0

\* ------------------------------------------------------------------- bounds

\* The interpreter loads the stack up to this depth with whole push cycles.
MaxDepth == 18
\* Calls the interpreter may issue outside a cycle script, in any order.
MaxFree == 1
\* Pop cycles in a run of the push/pop interpreter.
MaxPops == 2
\* Matched shift_right/shift_left pairs in a run of the pair interpreter.
MaxPairs == 2
\* new() is given 0 or MaxInitValues initial values ...
MaxInitValues == 3
\* ... and an initial trace length of 0 .. MaxInitLen.
MaxInitLen == 3

\* ------------------------------------------------------------------ helpers

Cols == 0 .. (STACK_TOP_SIZE - 1)

Min(a, b) == IF a < b THEN a ELSE b

\* self.trace[0].len()
TraceLength(t) == Len(t[0])

\* self.trace[i][r]
Cell(t, i, r) == t[i][r + 1]

\* column[r] = v
Write(column, r, v) == [column EXCEPT ![r + 1] = v]

\* Vec::resize(new_length, value)
Resize(column, new_length, value) ==
    IF new_length <= Len(column)
    THEN SubSeq(column, 1, new_length)
    ELSE column \o [r \in 1 .. (new_length - Len(column)) |-> value]

\* A value no earlier cycle has produced: the stack copies and compares
\* nothing, so one fresh value per cycle tells every cell apart.
Fresh == step + 1

\* The values a caller passes to set() outside a cycle script.
SetVals == {ZERO, Fresh}

\* The initial values handed to new(): none, or MaxInitValues distinct ones.
InitValues == {<<>>, [i \in 1 .. MaxInitValues |-> 100 + i]}

\* The positions a caller reads with get(): the top, the one below it and
\* the last column of the trace.
GetPositions == {0, 1, MAX_TOP_IDX}

\* The depths a caller requires of check_depth(): one, a few, and one more
\* than the trace holds.
ReqDepths == {1, 3, STACK_TOP_SIZE + 1}

\* The operation names a caller passes to check_depth().
OpNames == {"foo", "drop"}

\* ---------------------------------------------------------------- calls

Call(op, pos, val) == [op |-> op, pos |-> pos, val |-> val]

Unit == [kind |-> "unit", op |-> "", step |-> 0, val |-> ZERO]
\* The call does not return: the thread unwinds.
Panic == [kind |-> "panic", op |-> "", step |-> 0, val |-> ZERO]
Ok(v) == [kind |-> "Ok", op |-> "", step |-> 0, val |-> v]
StackUnderflow(op, s) == [kind |-> "StackUnderflow", op |-> op, step |-> s, val |-> ZERO]

\* The interpreter issues the next call of its cycle script, or breaks the
\* script off and issues any call at all, while its budget of free calls lasts.
Issue(c) ==
    \/ pend # <<>> /\ Head(pend) = c /\ pend' = Tail(pend) /\ free' = free
    \/ free > 0 /\ pend' = <<>> /\ free' = free - 1

\* What the interpreter keeps of a call: the call, the step it was made at
\* and what it returned.
Returned(c, r) == last' = [call |-> c, at |-> step, ret |-> r]

\* ------------------------------------------------------------ constructor

\* Faulty variant: a column is created filled with its initial value.
NewFilled(init_values, init_trace_length) ==
    [step |-> 0,
     trace |-> [i \in Cols |->
                  [r \in 1 .. init_trace_length |->
                     IF i < Len(init_values) THEN init_values[i + 1] ELSE ZERO]],
     overflow |-> <<>>,
     depth |-> 0]

New(init_values, init_trace_length) ==
    [step |-> 0,
     trace |-> [i \in Cols |->
                  [r \in 1 .. init_trace_length |->
                     IF r = 1 /\ i < Len(init_values)
                     THEN init_values[i + 1] ELSE ZERO]],
     overflow |-> <<>>,
     depth |-> 0]

\* new() indexes column[0] for every supplied value: it panics on an empty
\* column unless no value is supplied.
NewOk(init_values, init_trace_length) ==
    init_values = <<>> \/ init_trace_length > 0

\* ---------------------------------------------------------------- accessors

\* Faulty variant: the error carries the step being written, not the current one.
PeekResultNextStep(t, s, d) ==
    IF d = 0 THEN StackUnderflow("peek", s + 1) ELSE Ok(Cell(t, 0, s))

PeekResult(t, s, d) ==
    IF d = 0 THEN StackUnderflow("peek", s) ELSE Ok(Cell(t, 0, s))

\* Reading trace[0][step] panics when the row does not exist.
PeekOk(t, s, d) == d = 0 \/ s < TraceLength(t)

Peek ==
    /\ Issue(Call("peek", 0, ZERO))
    /\ PeekOk(trace, step, depth)
    /\ Returned(Call("peek", 0, ZERO), PeekResult(trace, step, depth))
    /\ UNCHANGED <<stack, abs, pair>>

\* self.trace[pos][self.step]
GetResult(t, s, pos) == Ok(Cell(t, pos, s))

\* The debug assertion, and the row read being a row of the trace.
GetOk(t, s, d, pos) ==
    /\ pos < d
    /\ s < TraceLength(t)

Get(pos) ==
    /\ Issue(Call("get", pos, ZERO))
    /\ GetOk(trace, step, depth, pos)
    /\ Returned(Call("get", pos, ZERO), GetResult(trace, step, pos))
    /\ UNCHANGED <<stack, abs, pair>>

\* The array trace_state() returns: column[self.step] of every column.
TraceStateResult(t, s) == [i \in Cols |-> Cell(t, i, s)]

\* Reading column[step] panics when the row does not exist.
TraceStateOk(t, s) == s < TraceLength(t)

TraceState ==
    /\ Issue(Call("trace_state", 0, ZERO))
    /\ TraceStateOk(trace, step)
    /\ Returned(Call("trace_state", 0, ZERO), Ok(TraceStateResult(trace, step)))
    /\ UNCHANGED <<stack, abs, pair>>

\* ----------------------------------------------------------------- mutators

\* Faulty variant: the value lands in the current row, not the next one.
SetTraceCurrentRow(t, s, pos, value) ==
    [t EXCEPT ![pos] = Write(t[pos], s, value)]

SetTrace(t, s, pos, value) ==
    [t EXCEPT ![pos] = Write(t[pos], s + 1, value)]

SetOk(t, s, d, pos) ==
    /\ pos = 0 \/ pos < d
    /\ s + 1 < TraceLength(t)

Set(pos, value) ==
    /\ Issue(Call("set", pos, value))
    /\ SetOk(trace, step, depth, pos)
    /\ trace' = SetTrace(trace, step, pos, value)
    /\ Returned(Call("set", pos, value), Unit)
    /\ UNCHANGED <<step, depth, overflow, abs, pair>>

CopyStateTrace(t, s, d, start_pos) ==
    LET end_pos == Min(d, STACK_TOP_SIZE)
    IN  [i \in Cols |->
           IF start_pos <= i /\ i < end_pos
           THEN Write(t[i], s + 1, Cell(t, i, s))
           ELSE t[i]]

CopyStateOk(t, s, d, start_pos) ==
    /\ start_pos < STACK_TOP_SIZE
    /\ start_pos <= d
    /\ start_pos < Min(d, STACK_TOP_SIZE) => s + 1 < TraceLength(t)

CopyState(start_pos) ==
    /\ Issue(Call("copy_state", start_pos, ZERO))
    /\ CopyStateOk(trace, step, depth, start_pos)
    /\ trace' = CopyStateTrace(trace, step, depth, start_pos)
    /\ Returned(Call("copy_state", start_pos, ZERO), Unit)
    /\ UNCHANGED <<step, depth, overflow, abs, pair>>

\* Faulty variant: the refill takes the oldest overflow element, not the newest.
ShiftLeftTraceFifo(t, ov, s, d, start_pos) ==
    IF d <= STACK_TOP_SIZE
    THEN [i \in Cols |->
            IF start_pos <= i + 1 /\ i + 1 < d
            THEN Write(t[i], s + 1, Cell(t, i + 1, s))
            ELSE t[i]]
    ELSE [i \in Cols |->
            IF i = STACK_TOP_SIZE - 1
            THEN Write(t[i], s + 1, ov[1])
            ELSE IF start_pos <= i + 1 /\ i + 1 < STACK_TOP_SIZE
                 THEN Write(t[i], s + 1, Cell(t, i + 1, s))
                 ELSE t[i]]

\* Faulty variant: the slide reads the row being written, not the current one.
ShiftLeftTraceSameRow(t, ov, s, d, start_pos) ==
    IF d <= STACK_TOP_SIZE
    THEN [i \in Cols |->
            IF start_pos <= i + 1 /\ i + 1 < d
            THEN Write(t[i], s + 1, Cell(t, i + 1, s + 1))
            ELSE t[i]]
    ELSE [i \in Cols |->
            IF i = STACK_TOP_SIZE - 1
            THEN Write(t[i], s + 1, ov[Len(ov)])
            ELSE IF start_pos <= i + 1 /\ i + 1 < STACK_TOP_SIZE
                 THEN Write(t[i], s + 1, Cell(t, i + 1, s + 1))
                 ELSE t[i]]

\* Faulty variant: the slide also carries the vacated position forward.
ShiftLeftTraceCarry(t, ov, s, d, start_pos) ==
    IF d <= STACK_TOP_SIZE
    THEN [i \in Cols |->
            IF start_pos <= i + 1 /\ i + 1 < d
            THEN Write(t[i], s + 1, Cell(t, i + 1, s))
            ELSE IF i + 1 = d
                 THEN Write(t[i], s + 1, Cell(t, i, s))
                 ELSE t[i]]
    ELSE [i \in Cols |->
            IF i = STACK_TOP_SIZE - 1
            THEN Write(t[i], s + 1, ov[Len(ov)])
            ELSE IF start_pos <= i + 1 /\ i + 1 < STACK_TOP_SIZE
                 THEN Write(t[i], s + 1, Cell(t, i + 1, s))
                 ELSE t[i]]

\* The rows shift_left writes, by the arm of its match on depth.
ShiftLeftTrace(t, ov, s, d, start_pos) ==
    IF d <= STACK_TOP_SIZE
    THEN [i \in Cols |->
            IF start_pos <= i + 1 /\ i + 1 < d
            THEN Write(t[i], s + 1, Cell(t, i + 1, s))
            ELSE t[i]]
    ELSE [i \in Cols |->
            IF i = STACK_TOP_SIZE - 1
            THEN Write(t[i], s + 1, ov[Len(ov)])
            ELSE IF start_pos <= i + 1 /\ i + 1 < STACK_TOP_SIZE
                 THEN Write(t[i], s + 1, Cell(t, i + 1, s))
                 ELSE t[i]]

\* self.overflow.pop() in the last arm
ShiftLeftOverflow(ov, d) ==
    IF d <= STACK_TOP_SIZE THEN ov ELSE SubSeq(ov, 1, Len(ov) - 1)

\* Faulty variant: no arm for depth 0 and no assertion on the depth.
ShiftLeftOkUnchecked(t, ov, s, d, start_pos) ==
    /\ start_pos < STACK_TOP_SIZE
    /\ (d <= STACK_TOP_SIZE /\ start_pos < d) => s + 1 < TraceLength(t)
    /\ d > STACK_TOP_SIZE => (ov # <<>> /\ s + 1 < TraceLength(t))

\* The debug assertions, unreachable!() at depth 0, expect() on the pop, and
\* the rows read and written being rows of the trace.
ShiftLeftOk(t, ov, s, d, start_pos) ==
    /\ start_pos > 0
    /\ start_pos < STACK_TOP_SIZE
    /\ start_pos <= d
    /\ d # 0
    /\ (d <= STACK_TOP_SIZE /\ start_pos < d) => s + 1 < TraceLength(t)
    /\ d > STACK_TOP_SIZE => (ov # <<>> /\ s + 1 < TraceLength(t))

ShiftLeft(start_pos) ==
    /\ Issue(Call("shift_left", start_pos, ZERO))
    /\ ShiftLeftOk(trace, overflow, step, depth, start_pos)
    /\ trace' = ShiftLeftTrace(trace, overflow, step, depth, start_pos)
    /\ overflow' = ShiftLeftOverflow(overflow, depth)
    /\ depth' = depth - 1
    /\ Returned(Call("shift_left", start_pos, ZERO), Unit)
    /\ UNCHANGED <<step, abs, pair>>

\* shift_left on an empty stack: a debug assertion on start_pos fails or
\* the arm 0 => unreachable!() is taken. Either way the call panics, the
\* Stack is as it was and the interpreter makes no further call.
ShiftLeftUnderflow(start_pos) ==
    /\ depth = 0
    /\ \/ pend # <<>> /\ Head(pend) = Call("shift_left", start_pos, ZERO)
       \/ free > 0
    /\ pend' = <<>>
    /\ free' = 0
    /\ Returned(Call("shift_left", start_pos, ZERO), Panic)
    /\ UNCHANGED <<stack, abs, pair>>

\* Faulty variant: the slide starts one position late.
ShiftRightTraceLate(t, s, d, start_pos) ==
    IF d = 0
    THEN t
    ELSE LET end_pos == IF d <= MAX_TOP_IDX THEN d ELSE MAX_TOP_IDX
         IN  [i \in Cols |->
                IF i >= 1 /\ start_pos < i - 1 /\ i - 1 < end_pos
                THEN Write(t[i], s + 1, Cell(t, i - 1, s))
                ELSE t[i]]

\* The rows shift_right writes, by the arm of its match on depth.
ShiftRightTrace(t, s, d, start_pos) ==
    IF d = 0
    THEN t
    ELSE LET end_pos == IF d <= MAX_TOP_IDX THEN d ELSE MAX_TOP_IDX
         IN  [i \in Cols |->
                IF i >= 1 /\ start_pos <= i - 1 /\ i - 1 < end_pos
                THEN Write(t[i], s + 1, Cell(t, i - 1, s))
                ELSE t[i]]

\* Faulty variant: the spill starts one depth early.
ShiftRightOverflowEarly(t, ov, s, d) ==
    IF d >= MAX_TOP_IDX THEN Append(ov, Cell(t, MAX_TOP_IDX, s)) ELSE ov

\* Faulty variant: the spill takes column 15 from the row being written.
ShiftRightOverflowNextRow(t, ov, s, d) ==
    IF d > MAX_TOP_IDX THEN Append(ov, Cell(t, MAX_TOP_IDX, s + 1)) ELSE ov

\* self.overflow.push(to_overflow) in the last arm
ShiftRightOverflow(t, ov, s, d) ==
    IF d > MAX_TOP_IDX THEN Append(ov, Cell(t, MAX_TOP_IDX, s)) ELSE ov

ShiftRightOk(t, s, d, start_pos) ==
    /\ start_pos < STACK_TOP_SIZE
    /\ start_pos <= d
    /\ (d >= 1 /\ start_pos < Min(d, MAX_TOP_IDX)) => s + 1 < TraceLength(t)
    /\ d > MAX_TOP_IDX => s < TraceLength(t)

\* Faulty variant: on an empty stack the call returns before depth += 1.
ShiftRightEmptyReturns(start_pos) ==
    /\ Issue(Call("shift_right", start_pos, ZERO))
    /\ ShiftRightOk(trace, step, depth, start_pos)
    /\ trace' = ShiftRightTrace(trace, step, depth, start_pos)
    /\ overflow' = ShiftRightOverflow(trace, overflow, step, depth)
    /\ depth' = IF depth = 0 THEN depth ELSE depth + 1
    /\ Returned(Call("shift_right", start_pos, ZERO), Unit)
    /\ UNCHANGED <<step, abs, pair>>

ShiftRight(start_pos) ==
    /\ Issue(Call("shift_right", start_pos, ZERO))
    /\ ShiftRightOk(trace, step, depth, start_pos)
    /\ trace' = ShiftRightTrace(trace, step, depth, start_pos)
    /\ overflow' = ShiftRightOverflow(trace, overflow, step, depth)
    /\ depth' = depth + 1
    /\ Returned(Call("shift_right", start_pos, ZERO), Unit)
    /\ UNCHANGED <<step, abs, pair>>

\* Faulty variant: the clock skips a cycle.
AdvanceClockSkip ==
    /\ Issue(Call("advance_clock", 0, ZERO))
    /\ step' = step + 2
    /\ Returned(Call("advance_clock", 0, ZERO), Unit)
    /\ UNCHANGED <<depth, trace, overflow, abs, pair>>

AdvanceClock ==
    /\ Issue(Call("advance_clock", 0, ZERO))
    /\ step' = step + 1
    /\ Returned(Call("advance_clock", 0, ZERO), Unit)
    /\ UNCHANGED <<depth, trace, overflow, abs, pair>>

\* The loop of finalize(): n rounds of copy_state(0); advance_clock(). Each
\* round's result is bound through a singleton set, which evaluates it once.
RECURSIVE FinalizeLoop(_, _, _, _)
FinalizeLoop(t, s, d, n) ==
    IF n = 0
    THEN [trace |-> t, step |-> s]
    ELSE CHOOSE end \in { FinalizeLoop(t1, s1, d, n - 1) :
                             t1 \in {CopyStateTrace(t, s, d, 0)}, s1 \in {s + 1} } : TRUE

\* Faulty variant: the range runs to trace_length() inclusive of the last row.
FinalizeRoundsInclusive(t, s) ==
    IF s < TraceLength(t) THEN TraceLength(t) - s ELSE 0

\* Faulty variant: the range stops one row early.
FinalizeRoundsShort(t, s) ==
    IF s < TraceLength(t) - 1 THEN TraceLength(t) - 2 - s ELSE 0

\* The length of the range self.step .. self.trace_length() - 1
FinalizeRounds(t, s) ==
    IF s < TraceLength(t) - 1 THEN TraceLength(t) - 1 - s ELSE 0

\* trace_length() - 1 underflows on an empty trace: a panic, or a loop over
\* some 2^64 rows that do not exist.
FinalizeOk(t) == TraceLength(t) >= 1

Finalize ==
    /\ Issue(Call("finalize", 0, ZERO))
    /\ FinalizeOk(trace)
    /\ LET end == FinalizeLoop(trace, step, depth, FinalizeRounds(trace, step))
       IN  /\ trace' = end.trace
           /\ step' = end.step
    /\ Returned(Call("finalize", 0, ZERO), Unit)
    /\ UNCHANGED <<depth, overflow, abs, pair>>

\* ------------------------------------------------------------------ utility

\* Faulty variant: the trace grows only once the next row is past its end.
EnsureTraceStrict(t, s) ==
    IF s + 1 > TraceLength(t)
    THEN LET new_length == TraceLength(t) * 2
         IN  [i \in Cols |-> Resize(t[i], new_length, ZERO)]
    ELSE t

EnsureTrace(t, s) ==
    IF s + 1 >= TraceLength(t)
    THEN LET new_length == TraceLength(t) * 2
         IN  [i \in Cols |-> Resize(t[i], new_length, ZERO)]
    ELSE t

EnsureTraceCapacity ==
    /\ Issue(Call("ensure_trace_capacity", 0, ZERO))
    /\ trace' = EnsureTrace(trace, step)
    /\ Returned(Call("ensure_trace_capacity", 0, ZERO), Unit)
    /\ UNCHANGED <<step, depth, overflow, abs, pair>>

\* A call of check_depth(req_depth, op): the operation name rides along.
CheckDepthCall(req_depth, op) ==
    [op |-> "check_depth", pos |-> req_depth, val |-> ZERO, name |-> op]

\* Faulty variant: a stack of exactly the required depth is rejected.
CheckDepthResultInclusive(s, d, req_depth, op) ==
    IF d <= req_depth THEN StackUnderflow(op, s) ELSE Ok(ZERO)

\* Ok(()) carries no value.
CheckDepthResult(s, d, req_depth, op) ==
    IF d < req_depth THEN StackUnderflow(op, s) ELSE Ok(ZERO)

CheckDepth(req_depth, op) ==
    /\ Issue(CheckDepthCall(req_depth, op))
    /\ Returned(CheckDepthCall(req_depth, op),
                CheckDepthResult(step, depth, req_depth, op))
    /\ UNCHANGED <<stack, abs, pair>>

\* -------------------------------------------------------------- interpreter

\* One push cycle of the interpreter.
PushScript(v) ==
    << Call("ensure_trace_capacity", 0, ZERO), Call("shift_right", 0, ZERO),
       Call("set", 0, v), Call("advance_clock", 0, ZERO) >>

\* One pop cycle of the interpreter.
PopScript ==
    << Call("ensure_trace_capacity", 0, ZERO), Call("shift_left", 1, ZERO),
       Call("advance_clock", 0, ZERO) >>

\* A shift_right(p) cycle followed by a shift_left(p) cycle. In each cycle
\* copy_state(0) carries forward the positions the shift does not write; the
\* slot the push opens is set to v.
PairScript(p, v) ==
    << Call("ensure_trace_capacity", 0, ZERO), Call("copy_state", 0, ZERO),
       Call("shift_right", p, ZERO), Call("set", p, v),
       Call("advance_clock", 0, ZERO),
       Call("ensure_trace_capacity", 0, ZERO), Call("copy_state", 0, ZERO),
       Call("shift_left", p, ZERO), Call("advance_clock", 0, ZERO) >>

NoPair == [n |-> 0, s0 |-> 0, d0 |-> 0, p |-> 0, v |-> ZERO, touched |-> {}]

Dispatched == last' = [call |-> Call("dispatch", 0, ZERO), at |-> step, ret |-> Unit]

\* The interpreter starts a push cycle; abs is the stack it means to have.
StartPush ==
    /\ pend = <<>>
    /\ depth < MaxDepth
    /\ pend' = PushScript(Fresh)
    /\ abs' = <<Fresh>> \o abs
    /\ Dispatched
    /\ UNCHANGED <<stack, free, pair>>

\* The interpreter starts a pop cycle.
StartPop ==
    /\ pend = <<>>
    /\ depth > 0
    /\ (step - depth) \div 2 < MaxPops
    /\ pend' = PopScript
    /\ abs' = Tail(abs)
    /\ Dispatched
    /\ UNCHANGED <<stack, free, pair>>

\* The interpreter looks at the top of the stack between two cycles.
StartPeek ==
    /\ pend = <<>>
    /\ last.call.op # "peek"
    /\ pend' = <<Call("peek", 0, ZERO)>>
    /\ Dispatched
    /\ UNCHANGED <<stack, free, abs, pair>>

\* The interpreter starts a matched pair at position p; pair records the
\* step and depth before the first pair and the columns p - 1 of the pairs.
StartPair(p) ==
    /\ pend = <<>>
    /\ pair.n < MaxPairs
    /\ 0 < p /\ p < STACK_TOP_SIZE /\ p <= depth
    /\ pend' = PairScript(p, Fresh)
    /\ pair' = [n |-> pair.n + 1,
                s0 |-> IF pair.n = 0 THEN step ELSE pair.s0,
                d0 |-> IF pair.n = 0 THEN depth ELSE pair.d0,
                p |-> p, v |-> Fresh,
                touched |-> pair.touched \cup {p - 1}]
    /\ Dispatched
    /\ UNCHANGED <<stack, free, abs>>

\* The interpreter ends the program: it pads the trace.
StartFinish ==
    /\ pend = <<>>
    /\ pend' = <<Call("finalize", 0, ZERO)>>
    /\ Dispatched
    /\ UNCHANGED <<stack, free, abs, pair>>

\* Whether the interpreter has made no call of its own choice yet and has
\* not ended the program.
Loading == free = MaxFree /\ last.call.op \in {"new", "advance_clock"}

\* The stack is loaded by push cycles before the first free call ...
Load == Loading /\ StartPush

\* ... the program may then end ...
Finish == Loading /\ StartFinish

\* ... or before the first matched pair.
LoadPairs == pair.n = 0 /\ StartPush

\* -------------------------------------------------------------------- specs

InitStack(f) ==
    \E init_values \in InitValues, init_trace_length \in 0 .. MaxInitLen :
       /\ NewOk(init_values, init_trace_length)
       /\ LET s == New(init_values, init_trace_length)
          IN  /\ step = s.step
              /\ depth = s.depth
              /\ trace = s.trace
              /\ overflow = s.overflow
       /\ last = [call |-> Call("new", 0, ZERO), at |-> 0, ret |-> Unit]
       /\ pend = <<>>
       /\ free = f
       /\ abs = <<>>
       /\ pair = NoPair

\* Any calls: the stack is loaded by push cycles, the program may end, and
\* then (or from the middle of a cycle) the stack is called freely.
Init == InitStack(MaxFree)

Next ==
    \/ Load
    \/ Finish
    \/ Peek
    \/ \E pos \in Cols, value \in SetVals : Set(pos, value)
    \/ \E start_pos \in Cols : CopyState(start_pos)
    \/ \E start_pos \in Cols : ShiftLeft(start_pos)
    \/ \E start_pos \in Cols : ShiftRight(start_pos)
    \/ AdvanceClock
    \/ Finalize
    \/ EnsureTraceCapacity
    \/ \E start_pos \in Cols : ShiftLeftUnderflow(start_pos)
    \/ \E pos \in GetPositions : Get(pos)
    \/ TraceState
    \/ \E req_depth \in ReqDepths, op \in OpNames : CheckDepth(req_depth, op)

Spec == Init /\ [][Next]_vars

\* The push/pop interpreter: whole push and pop cycles, in any order, and a
\* look at the top of the stack between them.
InitLifo == InitStack(0)

NextLifo ==
    \/ StartPush
    \/ StartPop
    \/ StartPeek
    \/ Peek
    \/ EnsureTraceCapacity
    \/ \E start_pos \in Cols : ShiftRight(start_pos)
    \/ \E start_pos \in Cols : ShiftLeft(start_pos)
    \/ \E pos \in Cols, value \in SetVals : Set(pos, value)
    \/ AdvanceClock

SpecLifo == InitLifo /\ [][NextLifo]_vars

\* The pair interpreter: push cycles, then matched pairs at any positions.
InitPairs == InitStack(0)

NextPairs ==
    \/ LoadPairs
    \/ \E p \in Cols : StartPair(p)
    \/ EnsureTraceCapacity
    \/ \E start_pos \in Cols : CopyState(start_pos)
    \/ \E start_pos \in Cols : ShiftRight(start_pos)
    \/ \E start_pos \in Cols : ShiftLeft(start_pos)
    \/ \E pos \in Cols, value \in SetVals : Set(pos, value)
    \/ AdvanceClock

SpecPairs == InitPairs /\ [][NextPairs]_vars

\* --------------------------------------------------------------- properties

Rows(t) == 0 .. (TraceLength(t) - 1)

\* Rows lo .. hi of every column are what they were.
RowsKept(lo, hi) ==
    \A i \in Cols : SubSeq(trace'[i], lo + 1, hi + 1) = SubSeq(trace[i], lo + 1, hi + 1)

\* The transition is a call of op (every action records its own call).
Called(op) == last'.call.op = op

\* C1: in every reachable state the overflow list has length
\* max(0, depth - 16): empty while depth <= 16, depth - 16 elements beyond.
C1_OverflowLength ==
    Len(overflow) = IF depth > STACK_TOP_SIZE THEN depth - STACK_TOP_SIZE ELSE 0

\* A shift_left at depth 18 has left one element in the overflow list.
C1_Witness ==
    /\ last.call.op = "shift_left"
    /\ depth = STACK_TOP_SIZE + 1
    /\ Len(overflow) = 1

\* C2: at the end of every push or pop cycle the stack holds the abstract
\* LIFO stack abs (top first): depth is its size, column i at the current
\* step is its element i for i < min(depth, 16), and the overflow list holds
\* its elements 16 and deeper, element 16 last (the next one popped).
C2_RefinesLifo ==
    pend = <<>> =>
       /\ depth = Len(abs)
       /\ \A i \in Cols : i < depth => Cell(trace, i, step) = abs[i + 1]
       /\ Len(overflow) = IF depth > STACK_TOP_SIZE THEN depth - STACK_TOP_SIZE ELSE 0
       /\ \A k \in 1 .. Len(overflow) :
             overflow[Len(overflow) - k + 1] = abs[STACK_TOP_SIZE + k]

\* Eighteen pushes and two pops: both overflow elements are back in the trace.
C2_Witness ==
    /\ pend = <<>>
    /\ depth = STACK_TOP_SIZE
    /\ step = STACK_TOP_SIZE + 4
    /\ last.call.op = "advance_clock"

\* The columns that hold live values at depth d.
Live(d) == {i \in Cols : i < d}

\* C3 as stated: after any sequence of matched pairs shift_right(p);
\* shift_left(p), each at one position p, the depth and the current-step
\* value of every column are what they were before the sequence.
C3_Original ==
    (pair.n > 0 /\ pend = <<>>) =>
       /\ depth = pair.d0
       /\ \A i \in Cols : Cell(trace, i, step) = Cell(trace, i, pair.s0)

\* C3 as amended: after any sequence of such pairs the depth is what it was
\* before the sequence, and so is the current-step value of every live
\* column (i < min(depth, 16)) other than the columns p - 1 of the pairs;
\* column p - 1 of the last pair holds the value given to the slot its
\* shift_right opened.
C3_Amended ==
    (pair.n > 0 /\ pend = <<>>) =>
       /\ depth = pair.d0
       /\ \A i \in Live(depth) \ pair.touched :
             Cell(trace, i, step) = Cell(trace, i, pair.s0)
       /\ Cell(trace, pair.p - 1, step) = pair.v

\* Two pairs at different positions, the first one across the overflow
\* boundary, have run to their end.
C3_Witness ==
    /\ pair.n = 2
    /\ pend = <<>>
    /\ pair.d0 = STACK_TOP_SIZE
    /\ Cardinality(pair.touched) = 2
    /\ last.call.op = "advance_clock"

\* C4: a shift_right at depth 16 leaves the pre-call current-step value of
\* column 15 as the only overflow element; nothing changes the overflow
\* list while depth stays 17; and the shift_left at depth 17 writes that
\* element into column 15 at row step + 1 and leaves the list empty.
C4_RoundTrip ==
    [][ /\ (Called("shift_right") /\ depth = STACK_TOP_SIZE) =>
              /\ depth' = STACK_TOP_SIZE + 1
              /\ overflow' = <<Cell(trace, MAX_TOP_IDX, step)>>
        /\ (depth = STACK_TOP_SIZE + 1 /\ depth' = STACK_TOP_SIZE + 1) =>
              overflow' = overflow
        /\ (Called("shift_left") /\ depth = STACK_TOP_SIZE + 1) =>
              /\ depth' = STACK_TOP_SIZE
              /\ Len(overflow) = 1
              /\ Cell(trace', MAX_TOP_IDX, step + 1) = overflow[1]
              /\ overflow' = <<>> ]_vars

\* Seventeen pushes, then a shift_left: the first value pushed, spilled by
\* the seventeenth push, is back in column 15 of the row being written.
C4_Witness ==
    /\ last.call.op = "shift_left"
    /\ Len(abs) = STACK_TOP_SIZE + 1
    /\ depth = STACK_TOP_SIZE
    /\ overflow = <<>>
    /\ step + 1 < TraceLength(trace)
    /\ Cell(trace, MAX_TOP_IDX, step + 1) = abs[STACK_TOP_SIZE + 1]

\* The cell (i, r) after shift_left(p) at depth d, as the reference has it.
ShiftLeftCell(i, r, p, d) ==
    IF r = step + 1 /\ d > STACK_TOP_SIZE /\ i = MAX_TOP_IDX
    THEN overflow[Len(overflow)]
    ELSE IF r = step + 1 /\ p <= i + 1 /\ i + 1 <= Min(d, STACK_TOP_SIZE) - 1
         THEN Cell(trace, i + 1, step)
         ELSE Cell(trace, i, r)

\* C5: shift_left(p) at depth d >= 1 writes column i at row step into
\* column i - 1 at row step + 1 for i in p .. min(d, 16) - 1; at d > 16 it
\* also moves the newest overflow element into column 15 at row step + 1;
\* at d <= 16 the overflow list is unchanged; depth decreases by 1, step is
\* unchanged and no other cell of the trace changes.
C5_ShiftLeft ==
    [][ (Called("shift_left") /\ depth >= 1) =>
          /\ last'.ret = Unit
          /\ depth' = depth - 1
          /\ step' = step
          /\ overflow' = IF depth > STACK_TOP_SIZE
                         THEN SubSeq(overflow, 1, Len(overflow) - 1)
                         ELSE overflow
          /\ \A i \in Cols : Len(trace'[i]) = Len(trace[i])
          /\ RowsKept(0, Min(step, TraceLength(trace) - 1))
          /\ RowsKept(step + 2, TraceLength(trace) - 1)
          /\ step + 1 < TraceLength(trace) =>
                \A i \in Cols :
                   Cell(trace', i, step + 1) =
                      ShiftLeftCell(i, step + 1, last'.call.pos, depth) ]_vars

\* shift_left(1) at depth 17: columns 0 .. 14 take columns 1 .. 15 and
\* column 15 takes the overflow element.
C5_Witness ==
    /\ last.call.op = "shift_left"
    /\ last.call.pos = 1
    /\ depth = STACK_TOP_SIZE
    /\ overflow = <<>>
    /\ Len(abs) = STACK_TOP_SIZE + 1
    /\ step + 1 < TraceLength(trace)
    /\ \A i \in 0 .. 14 : Cell(trace, i, step + 1) = Cell(trace, i + 1, step)
    /\ Cell(trace, MAX_TOP_IDX, step + 1) = abs[STACK_TOP_SIZE + 1]

\* Columns lo .. hi slide up by one position into row step + 1.
SlidesUp(lo, hi) ==
    \A i \in lo .. hi : Cell(trace', i + 1, step + 1) = Cell(trace, i, step)

\* C6 as stated: shift_right(p) at any depth >= 15 slides columns p .. 14
\* and pushes the current-step value of column 15 onto the overflow list;
\* at depth 1 .. 14 it slides columns p .. depth - 1 and leaves the
\* overflow list unchanged; depth increases by 1.
C6_Original ==
    [][ Called("shift_right") =>
          /\ depth' = depth + 1
          /\ depth >= MAX_TOP_IDX =>
                /\ SlidesUp(last'.call.pos, MAX_TOP_IDX - 1)
                /\ overflow' = Append(overflow, Cell(trace, MAX_TOP_IDX, step))
          /\ (1 <= depth /\ depth < MAX_TOP_IDX) =>
                /\ SlidesUp(last'.call.pos, depth - 1)
                /\ overflow' = overflow ]_vars

\* C6 as amended: the spill starts at depth 16, not 15. shift_right(p) at
\* any depth >= 16 slides columns p .. 14 and pushes the current-step value
\* of column 15 onto the overflow list; at depth 1 .. 15 it slides columns
\* p .. depth - 1 and leaves the overflow list unchanged; depth increases
\* by 1.
C6_Amended ==
    [][ Called("shift_right") =>
          /\ depth' = depth + 1
          /\ depth >= STACK_TOP_SIZE =>
                /\ SlidesUp(last'.call.pos, MAX_TOP_IDX - 1)
                /\ overflow' = Append(overflow, Cell(trace, MAX_TOP_IDX, step))
          /\ (1 <= depth /\ depth < STACK_TOP_SIZE) =>
                /\ SlidesUp(last'.call.pos, depth - 1)
                /\ overflow' = overflow ]_vars

\* shift_right at depth 15: column 14 has moved into column 15 and nothing
\* has been spilled.
C6_Witness ==
    /\ last.call.op = "shift_right"
    /\ depth = STACK_TOP_SIZE
    /\ overflow = <<>>
    /\ step + 1 < TraceLength(trace)
    /\ Cell(trace, MAX_TOP_IDX, step + 1) = Cell(trace, MAX_TOP_IDX - 1, step)
    /\ Cell(trace, MAX_TOP_IDX, step + 1) # ZERO

\* C7: after finalize() every row from the step it was called at to the
\* last row of the trace holds the same values in all 16 columns.
C7_ConstantTail ==
    [][ Called("finalize") =>
          \A r \in step .. (TraceLength(trace') - 1) : \A i \in Cols :
             Cell(trace', i, r) = Cell(trace', i, step) ]_vars

\* C8: finalize() called at step = trace_length - 1 changes nothing.
C8_FinalizeAgain ==
    [][ (Called("finalize") /\ step = TraceLength(trace) - 1) =>
          UNCHANGED stack ]_vars

\* finalize() has been called on a trace the program's end had already
\* padded, past the last push cycle.
C8_Witness ==
    /\ last.call.op = "finalize"
    /\ free = 0
    /\ last.at = TraceLength(trace) - 1
    /\ step = last.at
    /\ Len(abs) < step

\* C9: ensure_trace_capacity() at step + 1 >= trace_length doubles the
\* length of every column, keeps every old row and fills the new rows with
\* ZERO; at step + 1 < trace_length it changes nothing; step, depth and the
\* overflow list are unchanged either way.
C9_EnsureCapacity ==
    [][ Called("ensure_trace_capacity") =>
          /\ step' = step /\ depth' = depth /\ overflow' = overflow
          /\ IF step + 1 >= TraceLength(trace)
             THEN \A i \in Cols :
                     /\ Len(trace'[i]) = 2 * Len(trace[i])
                     /\ \A r \in Rows(trace) : Cell(trace', i, r) = Cell(trace, i, r)
                     /\ \A r \in Rows(trace') \ Rows(trace) : Cell(trace', i, r) = ZERO
             ELSE trace' = trace ]_vars

\* The trace has grown from 4 rows to 8 under a stack of depth 3.
C9_Witness ==
    /\ last.call.op = "ensure_trace_capacity"
    /\ pend # <<>>
    /\ depth = 3
    /\ step = 3
    /\ TraceLength(trace) = 8

\* C10: peek() returns StackUnderflow("peek", step) exactly when depth is 0
\* and the current-step value of column 0 otherwise; it changes nothing.
C10_Peek ==
    [][ Called("peek") =>
          /\ UNCHANGED stack
          /\ last'.ret.kind = "StackUnderflow" <=> depth = 0
          /\ depth = 0 => last'.ret = StackUnderflow("peek", step)
          /\ depth > 0 => last'.ret = Ok(Cell(trace, 0, step)) ]_vars

\* peek() has failed at step 2, after a push cycle and a pop cycle.
C10_Witness ==
    /\ last.call.op = "peek"
    /\ depth = 0
    /\ last.ret = StackUnderflow("peek", 2)

\* C11: check_depth(required_depth, op) returns StackUnderflow(op, step),
\* with the operation name it was given and the current step, exactly when
\* depth < required_depth, and Ok(()) otherwise; it changes nothing.
C11_CheckDepth ==
    [][ Called("check_depth") =>
          /\ UNCHANGED stack
          /\ last'.ret.kind = "StackUnderflow" <=> depth < last'.call.pos
          /\ depth < last'.call.pos =>
                last'.ret = StackUnderflow(last'.call.name, step)
          /\ depth >= last'.call.pos => last'.ret = Ok(ZERO) ]_vars

\* check_depth(3, "foo") has failed on a stack of depth 1 at step 1.
C11_Witness ==
    /\ last.call.op = "check_depth"
    /\ last.call.pos = 3
    /\ depth = 1
    /\ last.ret = StackUnderflow("foo", 1)

\* C12: trace_state() returns 16 values, and every unused slot, a position
\* >= depth when depth < 16, is ZERO.
C12_UnusedSlotsZero ==
    [][ Called("trace_state") =>
          /\ DOMAIN last'.ret.val = Cols
          /\ \A i \in Cols : i >= depth => last'.ret.val[i] = ZERO ]_vars

\* C13: when each cycle runs ensure_trace_capacity, then its mutators, then
\* advance_clock, step < trace_length holds in every reachable state, for
\* every initial trace length new() accepts, and step + 1 < trace_length
\* holds right after every ensure_trace_capacity call.
C13_StepInTrace ==
    /\ step < TraceLength(trace)
    /\ last.call.op = "ensure_trace_capacity" => step + 1 < TraceLength(trace)

\* The operations that write the trace within one cycle.
Mutators == {"set", "copy_state", "shift_left", "shift_right"}

\* C14: no operation changes a cell of a row r <= step, and no row goes
\* away; set, copy_state, shift_left and shift_right change cells of row
\* step + 1 only.
C14_PastRowsKept ==
    [][ \/ trace' = trace
        \/ /\ TraceLength(trace') >= TraceLength(trace)
           /\ RowsKept(0, Min(step, TraceLength(trace) - 1))
           /\ last'.call.op \in Mutators =>
                 /\ TraceLength(trace') = TraceLength(trace)
                 /\ RowsKept(step + 2, TraceLength(trace) - 1) ]_vars

\* set(0, v) at step 3 has written v into row 4 over a ZERO, under rows
\* 0 .. 3 that hold the values of three push cycles.
C14_Witness ==
    /\ last.call.op = "set"
    /\ last.call.pos = 0
    /\ last.call.val # ZERO
    /\ step = 3
    /\ depth = 3
    /\ Cell(trace, 0, 3) # ZERO
    /\ step + 1 < TraceLength(trace)
    /\ Cell(trace, 0, step + 1) = last.call.val

\* The operations other than advance_clock and finalize.
KeepStep ==
    Mutators \cup {"ensure_trace_capacity", "peek", "get", "trace_state", "check_depth"}

\* C15: step starts at 0 and never decreases; every advance_clock call
\* adds exactly 1 to it and changes nothing else; set, copy_state,
\* shift_left, shift_right, ensure_trace_capacity, peek, get and
\* check_depth leave it unchanged; only finalize, which advances the clock
\* once per round, moves it by more than 1 in one call.
C15_Step ==
    /\ step = 0
    /\ [][ /\ step' >= step
           /\ Called("advance_clock") =>
                 /\ step' = step + 1
                 /\ UNCHANGED <<depth, overflow, trace>>
           /\ last'.call.op \in KeepStep => step' = step
           /\ ~Called("finalize") => step' \in {step, step + 1} ]_vars

\* advance_clock has ended the cycle that pushed the seventeenth value.
C15_Witness ==
    /\ last.call.op = "advance_clock"
    /\ last.at = STACK_TOP_SIZE
    /\ step = STACK_TOP_SIZE + 1
    /\ depth = STACK_TOP_SIZE + 1
    /\ Len(overflow) = 1

\* C16: finalize() called at step <= trace_length - 1 returns with
\* step = trace_length - 1 after trace_length - 1 - step rounds of
\* copy_state(0); advance_clock: each row past the step of the call holds
\* the row before it in the columns below min(depth, 16) and is untouched
\* in the others; depth, the overflow list and the trace length are
\* unchanged.
C16_Finalize ==
    [][ (Called("finalize") /\ step <= TraceLength(trace) - 1) =>
          /\ step' = TraceLength(trace') - 1
          /\ step' - step = TraceLength(trace) - 1 - step
          /\ depth' = depth
          /\ overflow' = overflow
          /\ \A i \in Cols :
                /\ Len(trace'[i]) = Len(trace[i])
                /\ \A r \in Rows(trace) :
                      Cell(trace', i, r) =
                         IF r > step /\ i < Min(depth, STACK_TOP_SIZE)
                         THEN Cell(trace', i, r - 1)
                         ELSE Cell(trace, i, r) ]_vars

\* finalize() has run three rounds or more under a stack of depth >= 2:
\* the top of the stack fills column 0 to the end of the trace.
C16_Witness ==
    /\ last.call.op = "finalize"
    /\ step = TraceLength(trace) - 1
    /\ step - last.at >= 3
    /\ depth >= 2
    /\ Cell(trace, 0, last.at) # ZERO
    /\ \A r \in last.at .. step : Cell(trace, 0, r) = Cell(trace, 0, last.at)

\* C17: shift_left on an empty stack does not return: it panics, leaving
\* the Stack as it was, and nothing is called after the panic; depth is
\* never below 0.
C17_ShiftLeftEmpty ==
    /\ depth >= 0
    /\ [][ /\ last.ret.kind # "panic"
           /\ (Called("shift_left") /\ depth = 0) =>
                 /\ last'.ret.kind = "panic"
                 /\ UNCHANGED stack
           /\ depth' >= 0 ]_vars

\* shift_left has panicked on the empty stack new() built.
C17_Witness ==
    /\ last.call.op = "shift_left"
    /\ last.ret.kind = "panic"
    /\ depth = 0
    /\ free = 0

\* C18: shift_right(0) at depth 0 changes no cell of the trace and no
\* overflow element, and makes depth 1; and the advance_clock that ends the
\* cycle shift_right(0); set(0, v) begun at depth 0 leaves depth 1 and v in
\* column 0 at the new current step.
C18_PushOnEmpty ==
    [][ /\ (Called("shift_right") /\ depth = 0) =>
              /\ last'.call.pos = 0
              /\ trace' = trace
              /\ overflow' = overflow
              /\ step' = step
              /\ depth' = 1
        /\ (Called("advance_clock") /\ last.call.op = "set" /\ Len(abs) = 1) =>
              /\ depth' = 1
              /\ Cell(trace', 0, step') = last.call.val ]_vars

\* A push cycle, a pop cycle and a push cycle: the second push found the
\* stack empty again and its value is on top at step 3.
C18_Witness ==
    /\ last.call.op = "advance_clock"
    /\ pend = <<>>
    /\ step = 3
    /\ depth = 1
    /\ abs = <<step>>
    /\ Cell(trace, 0, step) = step
    /\ Cell(trace, 0, step - 1) = ZERO

\* C19 as stated: after a pop, shift_left at depth d in 1 .. 16 and then
\* advance_clock with no other write to position d - 1, that position
\* holds at the new current step the value it held at the previous step.
C19_Original ==
    [][ (Called("advance_clock") /\ last.call.op = "shift_left"
                                /\ depth < STACK_TOP_SIZE) =>
          Cell(trace', depth, step') = Cell(trace, depth, step) ]_vars

\* C19 as amended: shift_left at depth d in 1 .. 16 does not write
\* position d - 1 of row step + 1, so after such a pop that position holds
\* at the new current step what the row held before the call: ZERO, not
\* the value of the previous step, which stays behind in its own row.
C19_Amended ==
    [][ /\ (Called("shift_left") /\ 1 <= depth /\ depth <= STACK_TOP_SIZE) =>
              Cell(trace', depth - 1, step + 1) = Cell(trace, depth - 1, step + 1)
        /\ (Called("advance_clock") /\ last.call.op = "shift_left"
                                    /\ depth < STACK_TOP_SIZE) =>
              /\ Cell(trace', depth, step') = ZERO
              /\ Cell(trace', depth, step) = Cell(trace, depth, step) ]_vars

\* Sixteen push cycles and a pop cycle: position 15 held the first value
\* pushed at step 16 and reads ZERO at step 17.
C19_Witness ==
    /\ last.call.op = "advance_clock"
    /\ pend = <<>>
    /\ depth = MAX_TOP_IDX
    /\ step = STACK_TOP_SIZE + 1
    /\ Cell(trace, MAX_TOP_IDX, step - 1) = 1
    /\ Cell(trace, MAX_TOP_IDX, step) = ZERO

\* C20: every cell of a row past step + 1 is ZERO; so the row step + 1 is
\* all ZERO when new() or advance_clock has just made it the row to write,
\* and after a push cycle, which writes columns 0 .. depth - 1 of it, its
\* columns from depth on read ZERO at the new current step.
C20_AheadZero ==
    /\ \A i \in Cols : \A r \in Rows(trace) :
          r > step + 1 => Cell(trace, i, r) = ZERO
    /\ (last.call.op \in {"new", "advance_clock"} /\ step + 1 < TraceLength(trace)) =>
          \A i \in Cols : Cell(trace, i, step + 1) = ZERO
    /\ (Loading /\ last.call.op = "advance_clock") =>
          \A i \in Cols : i >= depth => Cell(trace, i, step) = ZERO

\* set(0, v) at step 4 of a trace grown to 8 rows: row 5 holds v and rows
\* 6 and 7 lie ahead.
C20_Witness ==
    /\ last.call.op = "set"
    /\ step = 4
    /\ TraceLength(trace) = 8
    /\ Cell(trace, 0, 5) # ZERO
    /\ Cell(trace, 0, 4) # ZERO
    /\ \A i \in Cols : Cell(trace, i, 6) = ZERO /\ Cell(trace, i, 7) = ZERO

====
